---- MODULE Spec2Model ----
(***************************************************************************)
(* Model of the CDR decoder (cdr.py) and of the two message loops that use *)
(* it (main.py: get_topic_duration, extract_video).                        *)
(*                                                                         *)
(* The recursive decoder is modelled as a stack machine: `tasks` is the    *)
(* Python call stack flattened into the calls that remain to be made,      *)
(* `vals` holds the values returned so far.  One action per function of    *)
(* CDRReader and per branch point of _decode_t / _decode_model.            *)
(*                                                                         *)
(* Values: an int is an integer, a bool a BOOLEAN, str a sequence of code  *)
(* points, bytes a sequence of bytes, list and tuple a sequence, the dict  *)
(* `values` a sequence of <<name, value>> pairs in insertion order, and a  *)
(* BaseModel instance a record [cls, values].                              *)
(***************************************************************************)
EXTENDS Integers, Sequences, FiniteSets, TLC

VARIABLES
    model_cls,      \* decode_cdr argument: the record class
    buf,            \* CDRReader.buf (the data argument)
    off,            \* CDRReader.off
    le,             \* CDRReader.le
    data_start,     \* CDRReader.data_start
    pc,             \* "new", "run", "done", "error"
    err,            \* the exception that ended the call, "" if none
    tasks,          \* calls still to be made, innermost first
    vals,           \* values returned and not yet used, newest first
    trace,          \* history of byte consumption and of binds
    enc,            \* how the input was produced: "raw", "packed", "cdr"
    orig,           \* for "packed" and "cdr" inputs, the encoded values
    msgs,           \* main.py: the messages reader.iter_messages() yields
    mpc,            \* main.py: position of the running function
    idx,            \* main.py: index of the next message of the loop
    first_timestamp,\* get_topic_duration: <<>> is None
    last_timestamp, \* get_topic_duration: <<>> is None
    duration,       \* get_topic_duration: returned value, <<>> before return
    prev_publish_time, \* extract_video: <<>> is None
    frame_count,    \* extract_video
    pushed,         \* extract_video: buffers accepted by appsrc
    flow_ok         \* extract_video: FALSE once push-buffer returned not OK

rvars == <<model_cls, buf, off, le, data_start, pc, err, tasks, vals, trace, enc, orig>>
mvars == <<msgs, mpc, idx, first_timestamp, last_timestamp, duration,
           prev_publish_time, frame_count, pushed, flow_ok>>
vars == <<model_cls, buf, off, le, data_start, pc, err, tasks, vals, trace, enc, orig,
          msgs, mpc, idx, first_timestamp, last_timestamp, duration,
          prev_publish_time, frame_count, pushed, flow_ok>>

---------------------------------------------------------------------------
\* Bounds of the model.

\* longest payload drawn from ByteVals after the (optional) header
MaxPayloadLen == 5
\* a list comprehension is followed for at most this many elements
MaxListIter == 3
\* longest message log
MaxMsgs == 3

\* byte values of the enumerated payloads
ByteVals == {0, 1, 255}

---------------------------------------------------------------------------
\* Generic helpers.

RECURSIVE Reverse(_)
Reverse(s) == IF s = <<>> THEN <<>> ELSE Reverse(Tail(s)) \o <<Head(s)>>

RECURSIVE Flatten(_)
Flatten(ss) == IF ss = <<>> THEN <<>> ELSE Head(ss) \o Flatten(Tail(ss))

Last(s) == s[Len(s)]
Front(s) == SubSeq(s, 1, Len(s) - 1)

\* lexicographic order on paths (sequences of integers); a prefix comes first
RECURSIVE LexLeq(_, _)
LexLeq(p, q) ==
    IF p = <<>> THEN TRUE
    ELSE IF q = <<>> THEN FALSE
    ELSE IF Head(p) < Head(q) THEN TRUE
    ELSE IF Head(p) > Head(q) THEN FALSE
    ELSE LexLeq(Tail(p), Tail(q))

IsPrefix(p, q) == Len(p) <= Len(q) /\ SubSeq(q, 1, Len(p)) = p

---------------------------------------------------------------------------
\* Primitive wire types.

DEFAULT_INT == "UInt32"
DEFAULT_FLOAT == "Float32"

PrimMeta(name, fmt, align, is_bool) ==
    [name |-> name, fmt |-> fmt, align |-> align, is_bool |-> is_bool]

\* stands for Python's None where a PrimMeta is expected
NoMeta == PrimMeta("None", "", 0, FALSE)

PrimNames == {"Int8", "UInt8", "Int16", "UInt16", "Int32", "UInt32",
              "Int64", "UInt64", "Float32", "Float64", "Bool"}

NAME2META ==
    [n \in PrimNames |->
        CASE n = "Int8"    -> PrimMeta("Int8",    "b", 1, FALSE)
          [] n = "UInt8"   -> PrimMeta("UInt8",   "B", 1, FALSE)
          [] n = "Int16"   -> PrimMeta("Int16",   "h", 2, FALSE)
          [] n = "UInt16"  -> PrimMeta("UInt16",  "H", 2, FALSE)
          [] n = "Int32"   -> PrimMeta("Int32",   "i", 4, FALSE)
          [] n = "UInt32"  -> PrimMeta("UInt32",  "I", 4, FALSE)
          [] n = "Int64"   -> PrimMeta("Int64",   "q", 8, FALSE)
          [] n = "UInt64"  -> PrimMeta("UInt64",  "Q", 8, FALSE)
          [] n = "Float32" -> PrimMeta("Float32", "f", 4, FALSE)
          [] n = "Float64" -> PrimMeta("Float64", "d", 8, FALSE)
          [] n = "Bool"    -> PrimMeta("Bool",    "B", 1, TRUE)]

\* struct.calcsize of "<"/">" followed by one format character
calcsize(fmt) ==
    CASE fmt \in {"b", "B"} -> 1
      [] fmt \in {"h", "H"} -> 2
      [] fmt \in {"i", "I", "f"} -> 4
      [] fmt \in {"q", "Q", "d"} -> 8

SignedFmt(fmt) == fmt \in {"b", "h", "i", "q"}
FloatFmt(fmt) == fmt \in {"f", "d"}

\* value of little-endian digits, least significant first
RECURSIVE UnsignedLE(_)
UnsignedLE(ds) == IF ds = <<>> THEN 0 ELSE Head(ds) + 256 * UnsignedLE(Tail(ds))

Complement(ds) == [j \in 1..Len(ds) |-> 255 - ds[j]]

\* TLC integers are 32-bit: the digits denote a number below 2^31
FitsUnsigned(ds) ==
    /\ \A j \in 1..Len(ds) : j > 4 => ds[j] = 0
    /\ Len(ds) >= 4 => ds[4] < 128

FitsModel(fmt, ds) ==
    IF FloatFmt(fmt) THEN TRUE
    ELSE IF SignedFmt(fmt) /\ Last(ds) >= 128 THEN FitsUnsigned(Complement(ds))
    ELSE FitsUnsigned(ds)

\* mutant of StructUnpack: a negative value read as one's complement
StructUnpackOnesComplement(fmt, little, raw) ==
    LET ds == IF little THEN raw ELSE Reverse(raw) IN
    IF FloatFmt(fmt) THEN <<"float", Reverse(ds)>>
    ELSE IF SignedFmt(fmt) /\ Last(ds) >= 128 THEN 0 - UnsignedLE(Complement(ds))
    ELSE UnsignedLE(ds)

\* struct.unpack_from(("<" | ">") + fmt, raw)[0]; a float is kept as its
\* IEEE-754 bit pattern, most significant byte first
StructUnpack(fmt, little, raw) ==
    LET ds == IF little THEN raw ELSE Reverse(raw) IN
    IF FloatFmt(fmt) THEN <<"float", Reverse(ds)>>
    ELSE IF SignedFmt(fmt) /\ Last(ds) >= 128 THEN 0 - UnsignedLE(Complement(ds)) - 1
    ELSE UnsignedLE(ds)

\* struct.pack("<" + fmt, v): the little-endian two's complement bytes of v
RECURSIVE DigitsLE(_, _)
DigitsLE(v, size) ==
    IF size = 0 THEN <<>> ELSE <<v % 256>> \o DigitsLE(v \div 256, size - 1)

StructPack(fmt, little, v) ==
    LET ds == DigitsLE(v, calcsize(fmt)) IN IF little THEN ds ELSE Reverse(ds)

---------------------------------------------------------------------------
\* Field types, named as in the Python annotations.

\* typing.get_origin
get_origin(t) ==
    CASE t \in {"Optional[UInt32]"} -> "Union"
      [] t \in {"List[UInt8]", "List[Int32]", "List[Empty]"} -> "list"
      [] t \in {"Tuple[UInt8, UInt16]", "Tuple[UInt8, ...]"} -> "tuple"
      [] t \in PrimNames -> "Annotated"
      [] OTHER -> "None"

\* typing.get_args
get_args(t) ==
    CASE t = "Optional[UInt32]" -> <<"UInt32", "NoneType">>
      [] t = "List[UInt8]" -> <<"UInt8">>
      [] t = "List[Int32]" -> <<"Int32">>
      [] t = "List[Empty]" -> <<"Empty">>
      [] t = "Tuple[UInt8, UInt16]" -> <<"UInt8", "UInt16">>
      [] t = "Tuple[UInt8, ...]" -> <<"UInt8", "...">>
      [] OTHER -> <<>>

\* the BaseModel subclasses: Timestamp and CompressedVideo are main.py's,
\* the others are the record shapes the decoder is exercised with
ModelFieldsTable ==
    [c \in {"Timestamp", "CompressedVideo", "AB", "Wide", "Mix", "Str", "Blob",
            "MBlob", "Seq8", "Seq32", "SeqEmpty", "Empty", "Opt", "Pair",
            "Nested", "Ell", "Unsup"} |->
        CASE c = "Timestamp" -> << <<"sec", "UInt32">>, <<"nsec", "UInt32">> >>
          [] c = "CompressedVideo" -> << <<"timestamp", "Timestamp">>, <<"frame_id", "str">>,
                                        <<"data", "bytes">>, <<"format", "str">> >>
          [] c = "AB" -> << <<"a", "UInt8">>, <<"b", "UInt32">> >>
          [] c = "Wide" -> << <<"x", "UInt64">> >>
          [] c = "Mix" -> << <<"a", "UInt8">>, <<"b", "Int8">>, <<"c", "UInt16">> >>
          [] c = "Str" -> << <<"s", "str">> >>
          [] c = "Blob" -> << <<"b", "bytes">> >>
          [] c = "MBlob" -> << <<"m", "bytearray">> >>
          [] c = "Seq8" -> << <<"xs", "List[UInt8]">> >>
          [] c = "Seq32" -> << <<"xs", "List[Int32]">> >>
          [] c = "SeqEmpty" -> << <<"xs", "List[Empty]">> >>
          [] c = "Empty" -> <<>>
          [] c = "Opt" -> << <<"a", "UInt8">>, <<"o", "Optional[UInt32]">> >>
          [] c = "Pair" -> << <<"x", "Int8">>, <<"y", "Int16">> >>
          [] c = "Nested" -> << <<"p", "Pair">>, <<"t", "Tuple[UInt8, UInt16]">>,
                               <<"z", "bool">>, <<"i", "int">> >>
          [] c = "Ell" -> << <<"t", "Tuple[UInt8, ...]">> >>
          [] c = "Unsup" -> << <<"d", "dict">> >>]

_is_basemodel(t) == t \in DOMAIN ModelFieldsTable

_iter_model_fields(model) == ModelFieldsTable[model]

_get_prim_meta(t) ==
    IF get_origin(t) = "Annotated" THEN NAME2META[t] ELSE NoMeta

_default_meta_for_python_type(t) ==
    IF t = "int" THEN NAME2META[DEFAULT_INT]
    ELSE IF t = "float" THEN NAME2META[DEFAULT_FLOAT]
    ELSE IF t = "bool" THEN NAME2META["Bool"]
    ELSE NoMeta

---------------------------------------------------------------------------
\* CDRReader: the pure parts.

\* mutant of _maybe_read_encapsulation: only 0x0001 is taken for a header
_maybe_read_encapsulation_le_only(data) ==
    IF Len(data) >= 4 /\ data[1] * 256 + data[2] = 1
    THEN [le |-> TRUE, off |-> 4, data_start |-> 4]
    ELSE [le |-> TRUE, off |-> 0, data_start |-> 0]

\* _maybe_read_encapsulation: the reader fields it leaves
_maybe_read_encapsulation(data) ==
    LET enc2 == IF Len(data) >= 4 THEN data[1] * 256 + data[2] ELSE 0 - 1 IN
    IF Len(data) >= 4 /\ enc2 \in {0, 1}
    THEN [le |-> (enc2 = 1), off |-> 4, data_start |-> 4]
    ELSE [le |-> TRUE, off |-> 0, data_start |-> 0]

\* mutant of AlignedOff: alignment measured from the start of the buffer
AlignedOffFromStart(o, origin, k) ==
    IF k <= 1 THEN o
    ELSE LET mis == o % k IN
         IF mis # 0 THEN o + (k - mis) ELSE o

\* _align: the offset it leaves
AlignedOff(o, origin, k) ==
    IF k <= 1 THEN o
    ELSE LET mis == (o - origin) % k IN
         IF mis # 0 THEN o + (k - mis) ELSE o

\* bytes.decode("utf-8", errors="strict"): validity and code points
Cont(b) == b >= 128 /\ b <= 191

Utf8Width(bs) ==
    LET b0 == bs[1] IN
    IF b0 < 128 THEN 1
    ELSE IF b0 >= 194 /\ b0 <= 223 /\ Len(bs) >= 2 /\ Cont(bs[2]) THEN 2
    ELSE IF b0 >= 224 /\ b0 <= 239 /\ Len(bs) >= 3 /\ Cont(bs[2]) /\ Cont(bs[3])
            /\ (b0 = 224 => bs[2] >= 160) /\ (b0 = 237 => bs[2] <= 159) THEN 3
    ELSE IF b0 >= 240 /\ b0 <= 244 /\ Len(bs) >= 4 /\ Cont(bs[2]) /\ Cont(bs[3]) /\ Cont(bs[4])
            /\ (b0 = 240 => bs[2] >= 144) /\ (b0 = 244 => bs[2] <= 143) THEN 4
    ELSE 0

RECURSIVE Utf8Valid(_)
Utf8Valid(bs) ==
    IF bs = <<>> THEN TRUE
    ELSE LET w == Utf8Width(bs) IN
         IF w = 0 THEN FALSE ELSE Utf8Valid(SubSeq(bs, w + 1, Len(bs)))

RECURSIVE Utf8Decode(_)
Utf8Decode(bs) ==
    IF bs = <<>> THEN <<>>
    ELSE LET w == Utf8Width(bs)
             cp == CASE w = 1 -> bs[1]
                     [] w = 2 -> (bs[1] - 192) * 64 + (bs[2] - 128)
                     [] w = 3 -> (bs[1] - 224) * 4096 + (bs[2] - 128) * 64 + (bs[3] - 128)
                     [] w = 4 -> (bs[1] - 240) * 262144 + (bs[2] - 128) * 4096
                                 + (bs[3] - 128) * 64 + (bs[4] - 128)
         IN <<cp>> \o Utf8Decode(SubSeq(bs, w + 1, Len(bs)))

---------------------------------------------------------------------------
\* The decoder as a machine.  m is the record of the reader and of the
\* flattened call stack; every step operator maps a machine to the next.

Task(op, t, path, i, n) == [op |-> op, t |-> t, path |-> path, i |-> i, n |-> n]

Ev(ev, path, name, from, to, n) ==
    [ev |-> ev, path |-> path, name |-> name, from |-> from, to |-> to, n |-> n]

\* a Python exception unwinds every frame of the decode
Raise(m, e) ==
    [m EXCEPT !.pc = "error", !.err = e, !.tasks = <<>>, !.vals = <<>>]

ErrUnderrun == "ValueError: CDR: buffer underrun"
ErrStrOverrun == "ValueError: CDR: string overruns buffer"
ErrBytesOverrun == "ValueError: CDR: bytes overrun"
ErrUtf8 == "UnicodeDecodeError"
ErrOptional == "TypeError: Optional[T] not supported by raw CDR; add explicit presence flag."
ErrEllipsis == "TypeError: Ellipsis tuples not supported"
ErrUnsupported == "TypeError: Unsupported field type"

\* decode_cdr up to the call of _decode_model: CDRReader(data), whose
\* __init__ runs _maybe_read_encapsulation
ConstructStep(m) ==
    LET r == _maybe_read_encapsulation(m.buf) IN
    [m EXCEPT !.le = r.le, !.off = r.off, !.data_start = r.data_start,
              !.pc = "run",
              !.tasks = <<Task("_decode_model", m.model_cls, <<>>, 0, 0)>>]

\* mutant of FieldOrder: the fields visited last to first
FieldOrderReversed(model) ==
    [j \in 1..Len(_iter_model_fields(model)) |-> Len(_iter_model_fields(model)) + 1 - j]

\* the order in which _decode_model visits the fields of a class
FieldOrder(model) == [j \in 1..Len(_iter_model_fields(model)) |-> j]

\* _decode_model: an empty dict, then per field a decode and a bind, then
\* the validation of the dict
DecodeModelStep(m) ==
    LET tk == Head(m.tasks)
        fields == _iter_model_fields(tk.t)
        order == FieldOrder(tk.t)
        perField == [j \in 1..Len(order) |->
                        << Task("_decode_t", fields[order[j]][2], tk.path \o <<order[j]>>, 0, 0),
                           Task("bind", tk.t, tk.path \o <<order[j]>>, order[j], 0) >>]
    IN [m EXCEPT !.tasks = Flatten(perField)
                            \o <<Task("validate", tk.t, tk.path, 0, Len(fields))>>
                            \o Tail(m.tasks),
                 !.vals = << <<>> >> \o m.vals]

\* values[name] = <the value _decode_t returned>
BindStep(m) ==
    LET tk == Head(m.tasks)
        name == _iter_model_fields(tk.t)[tk.i][1]
        v == m.vals[1]
        d == m.vals[2]
    IN [m EXCEPT !.tasks = Tail(m.tasks),
                 !.vals = << d \o << <<name, v>> >> >> \o Tail(Tail(m.vals)),
                 !.trace = m.trace \o <<Ev("bind", tk.path, name, m.off, m.off, tk.i)>>]

\* model_cls.model_validate(values): every decoded value already has the
\* type its field declares, so the instance is built from the dict as is
ValidateStep(m) ==
    LET tk == Head(m.tasks)
        d == m.vals[1]
    IN [m EXCEPT !.tasks = Tail(m.tasks),
                 !.vals = << [cls |-> tk.t, values |-> d] >> \o Tail(m.vals),
                 !.trace = m.trace \o <<Ev("validate", tk.path, tk.t, m.off, m.off, Len(d))>>]

\* _decode_t: the dispatch on the field type
DecodeTStep(m) ==
    LET tk == Head(m.tasks)
        rest == Tail(m.tasks)
        t == tk.t
        pm == _get_prim_meta(t)
        dm == _default_meta_for_python_type(t)
        origin == get_origin(t)
        args == get_args(t)
    IN
    IF pm # NoMeta THEN
        [m EXCEPT !.tasks = <<Task("read_primitive_meta", pm.name, tk.path, 0, 0)>> \o rest]
    ELSE IF dm # NoMeta THEN
        [m EXCEPT !.tasks = <<Task("read_primitive_meta", dm.name, tk.path, 0, 0)>> \o rest]
    ELSE IF origin = "Union" /\ (\E j \in 1..Len(args) : args[j] = "NoneType") THEN
        Raise(m, ErrOptional)
    ELSE IF origin = "list" THEN
        [m EXCEPT !.tasks = << Task("_align", "", tk.path, 0, 4),
                               Task("read_primitive_meta", "UInt32", tk.path, 0, 0),
                               Task("list_begin", args[1], tk.path, 0, 0) >> \o rest]
    ELSE IF origin = "tuple" /\ args # <<>> THEN
        IF Last(args) = "..." THEN Raise(m, ErrEllipsis)
        ELSE [m EXCEPT !.tasks = [j \in 1..Len(args) |->
                                     Task("_decode_t", args[j], tk.path \o <<j>>, 0, 0)]
                                 \o <<Task("mk_tuple", "", tk.path, 0, Len(args))>> \o rest]
    ELSE IF _is_basemodel(t) THEN
        [m EXCEPT !.tasks = <<Task("_decode_model", t, tk.path, 0, 0)>> \o rest]
    ELSE IF t = "str" THEN
        [m EXCEPT !.tasks = <<Task("read_str", t, tk.path, 0, 0)>> \o rest]
    ELSE IF t \in {"bytes", "bytearray"} THEN
        [m EXCEPT !.tasks = <<Task("read_bytes", t, tk.path, 0, 0)>> \o rest]
    ELSE Raise(m, ErrUnsupported)

\* read_primitive_meta: _align(meta.align), then _unpack of the format
ReadPrimitiveMetaStep(m) ==
    LET tk == Head(m.tasks)
        meta == NAME2META[tk.t]
    IN [m EXCEPT !.tasks = << Task("_align", "", tk.path, 0, meta.align),
                              Task("_unpack", tk.t, tk.path, 0, 0) >> \o Tail(m.tasks)]

\* _align(k)
AlignStep(m) ==
    LET tk == Head(m.tasks)
        o == AlignedOff(m.off, m.data_start, tk.n)
    IN [m EXCEPT !.tasks = Tail(m.tasks),
                 !.off = o,
                 !.trace = m.trace \o <<Ev("align", tk.path, "", m.off, o, tk.n)>>]

\* the bounds check of _unpack: TRUE when the read has to fail
Underrun(end, length) == end > length

\* _unpack(fmt) and the return of read_primitive_meta (bool coercion)
UnpackStep(m) ==
    LET tk == Head(m.tasks)
        meta == NAME2META[tk.t]
        size == calcsize(meta.fmt)
        end == m.off + size
    IN
    IF Underrun(end, Len(m.buf)) THEN Raise(m, ErrUnderrun)
    ELSE LET v == StructUnpack(meta.fmt, m.le, SubSeq(m.buf, m.off + 1, end)) IN
         [m EXCEPT !.tasks = Tail(m.tasks),
                   !.off = end,
                   !.vals = << IF meta.is_bool THEN v # 0 ELSE v >> \o m.vals,
                   !.trace = m.trace \o <<Ev("unpack", tk.path, tk.t, m.off, end, size)>>]

\* read_str up to the length prefix: _align(4), read_primitive_meta(UInt32)
ReadStrStep(m) ==
    LET tk == Head(m.tasks) IN
    [m EXCEPT !.tasks = << Task("_align", "", tk.path, 0, 4),
                           Task("read_primitive_meta", "UInt32", tk.path, 0, 0),
                           Task("str_body", tk.t, tk.path, 0, 0) >> \o Tail(m.tasks)]

\* mutant of Overrun: a body that ends exactly at the end of the buffer is refused
OverrunInclusive(end, length) == end >= length

\* the bounds check of read_str and read_bytes: TRUE when the read has to fail
Overrun(end, length) == end > length

\* raw[:-1] when raw ends with a NUL
StripNul(raw) == IF raw # <<>> /\ Last(raw) = 0 THEN Front(raw) ELSE raw

\* read_str after the length prefix
StrBodyStep(m) ==
    LET tk == Head(m.tasks)
        n == m.vals[1]
        end == m.off + n
    IN
    IF Overrun(end, Len(m.buf)) THEN Raise(m, ErrStrOverrun)
    ELSE LET raw == StripNul(SubSeq(m.buf, m.off + 1, end))
             m2 == [m EXCEPT !.off = end,
                             !.trace = m.trace \o <<Ev("body", tk.path, tk.t, m.off, end, n)>>]
         IN IF Utf8Valid(raw)
            THEN [m2 EXCEPT !.tasks = Tail(m.tasks),
                            !.vals = <<Utf8Decode(raw)>> \o Tail(m.vals)]
            ELSE Raise(m2, ErrUtf8)

\* read_bytes up to the length prefix
ReadBytesStep(m) ==
    LET tk == Head(m.tasks) IN
    [m EXCEPT !.tasks = << Task("_align", "", tk.path, 0, 4),
                           Task("read_primitive_meta", "UInt32", tk.path, 0, 0),
                           Task("bytes_body", tk.t, tk.path, 0, 0) >> \o Tail(m.tasks)]

\* read_bytes after the length prefix (bytearray(...) keeps the content)
BytesBodyStep(m) ==
    LET tk == Head(m.tasks)
        n == m.vals[1]
        end == m.off + n
    IN
    IF Overrun(end, Len(m.buf)) THEN Raise(m, ErrBytesOverrun)
    ELSE [m EXCEPT !.tasks = Tail(m.tasks),
                   !.off = end,
                   !.vals = <<SubSeq(m.buf, m.off + 1, end)>> \o Tail(m.vals),
                   !.trace = m.trace \o <<Ev("body", tk.path, tk.t, m.off, end, n)>>]

\* the list comprehension of _decode_t starts: range(length), empty result
ListBeginStep(m) ==
    LET tk == Head(m.tasks)
        length == m.vals[1]
    IN [m EXCEPT !.tasks = <<Task("list_next", tk.t, tk.path, 0, length)>> \o Tail(m.tasks),
                 !.vals = << <<>> >> \o Tail(m.vals),
                 !.trace = m.trace \o <<Ev("list_begin", tk.path, tk.t, m.off, m.off, length)>>]

\* one turn of the comprehension: the next element, or the finished list
ListNextStep(m) ==
    LET tk == Head(m.tasks) IN
    IF tk.i < tk.n
    THEN [m EXCEPT !.tasks = << Task("_decode_t", tk.t, tk.path \o <<tk.i + 1>>, 0, 0),
                                Task("list_append", tk.t, tk.path, tk.i + 1, tk.n),
                                Task("list_next", tk.t, tk.path, tk.i + 1, tk.n) >>
                              \o Tail(m.tasks)]
    ELSE [m EXCEPT !.tasks = Tail(m.tasks),
                   !.trace = m.trace \o <<Ev("list_end", tk.path, tk.t, m.off, m.off,
                                             Len(m.vals[1]))>>]

\* mutant of ListAppendStep: the element is put in front of the result
ListPrependStep(m) ==
    LET v == m.vals[1]
        acc == m.vals[2]
    IN [m EXCEPT !.tasks = Tail(m.tasks),
                 !.vals = << <<v>> \o acc >> \o Tail(Tail(m.vals))]

\* the element just decoded joins the result of the comprehension
ListAppendStep(m) ==
    LET v == m.vals[1]
        acc == m.vals[2]
    IN [m EXCEPT !.tasks = Tail(m.tasks),
                 !.vals = << acc \o <<v>> >> \o Tail(Tail(m.vals))]

\* tuple(...) of the element values, in the order they were decoded
MkTupleStep(m) ==
    LET tk == Head(m.tasks) IN
    [m EXCEPT !.tasks = Tail(m.tasks),
              !.vals = << Reverse(SubSeq(m.vals, 1, tk.n)) >>
                       \o SubSeq(m.vals, tk.n + 1, Len(m.vals))]

\* decode_cdr returns what _decode_model returned
ReturnStep(m) == [m EXCEPT !.pc = "done"]

TopOp(m) == IF m.pc = "run" /\ m.tasks # <<>> THEN Head(m.tasks).op ELSE ""

\* a step the model does not follow: a value beyond TLC's integers, or a
\* comprehension longer than MaxListIter
Capped(m) ==
    LET tk == Head(m.tasks) IN
    CASE TopOp(m) = "_unpack" ->
            LET meta == NAME2META[tk.t]
                end == m.off + calcsize(meta.fmt)
            IN /\ end <= Len(m.buf)
               /\ ~FitsModel(meta.fmt,
                             IF m.le THEN SubSeq(m.buf, m.off + 1, end)
                             ELSE Reverse(SubSeq(m.buf, m.off + 1, end)))
      [] TopOp(m) = "list_next" -> tk.i < tk.n /\ tk.i >= MaxListIter
      [] OTHER -> FALSE

Step(m) ==
    IF m.pc = "new" THEN ConstructStep(m)
    ELSE IF m.pc = "run" /\ m.tasks = <<>> THEN ReturnStep(m)
    ELSE CASE TopOp(m) = "_decode_model" -> DecodeModelStep(m)
           [] TopOp(m) = "bind" -> BindStep(m)
           [] TopOp(m) = "validate" -> ValidateStep(m)
           [] TopOp(m) = "_decode_t" -> DecodeTStep(m)
           [] TopOp(m) = "read_primitive_meta" -> ReadPrimitiveMetaStep(m)
           [] TopOp(m) = "_align" -> AlignStep(m)
           [] TopOp(m) = "_unpack" -> UnpackStep(m)
           [] TopOp(m) = "read_str" -> ReadStrStep(m)
           [] TopOp(m) = "str_body" -> StrBodyStep(m)
           [] TopOp(m) = "read_bytes" -> ReadBytesStep(m)
           [] TopOp(m) = "bytes_body" -> BytesBodyStep(m)
           [] TopOp(m) = "list_begin" -> ListBeginStep(m)
           [] TopOp(m) = "list_next" -> ListNextStep(m)
           [] TopOp(m) = "list_append" -> ListAppendStep(m)
           [] TopOp(m) = "mk_tuple" -> MkTupleStep(m)

NewMachine(cls, data) ==
    [model_cls |-> cls, buf |-> data, off |-> 0, le |-> FALSE, data_start |-> 0,
     pc |-> "new", err |-> "", tasks |-> <<>>, vals |-> <<>>, trace |-> <<>>]

RECURSIVE RunToEnd(_)
RunToEnd(m) ==
    IF m.pc \in {"done", "error"} THEN m
    ELSE IF Capped(m) THEN m
    ELSE RunToEnd(Step(m))

\* decode_cdr(model_cls, data) as one call: the machine it ends in
decode_cdr(cls, data) == RunToEnd(NewMachine(cls, data))

---------------------------------------------------------------------------
\* Inputs of decode_cdr.

Schemas == {"Timestamp", "CompressedVideo", "AB", "Wide", "Mix", "Str", "Blob", "MBlob",
            "Seq8", "Seq32", "SeqEmpty", "Opt", "Nested", "Ell", "Unsup"}

HeaderLE == <<0, 1, 0, 0>>
HeaderBE == <<0, 0, 0, 0>>
Headers == {<<>>, HeaderBE, HeaderLE, <<0, 1, 255, 1>>}

Payloads == UNION {[1..n -> ByteVals] : n \in 0..MaxPayloadLen}

\* a CompressedVideo message: header, sec, nsec, frame_id "", data <<d>>, format "h264"
VideoPayload(sec, d) ==
    HeaderLE \o <<sec, 0, 0, 0>> \o <<0, 0, 0, 0>>
             \o <<1, 0, 0, 0, 0>> \o <<0, 0, 0>>
             \o <<1, 0, 0, 0, d>> \o <<0, 0, 0>>
             \o <<5, 0, 0, 0, 104, 50, 54, 52, 0>>

\* the same message cut inside nsec
TruncatedPayload == HeaderLE \o <<1, 0, 0, 0>> \o <<0, 0>>

\* the byte strings of the documented examples, and longer well-formed ones
TestVectors ==
    { <<1, 0, 0, 0, 42, 0, 0, 0>>,
      HeaderLE \o <<42, 0, 0, 0>> \o <<7, 0, 0, 0>>,
      HeaderBE \o <<0, 0, 0, 42>> \o <<0, 0, 0, 7>>,
      <<3, 0, 0, 0, 104, 105, 0>>,
      <<10, 0, 0, 0, 104, 105>>,
      <<3, 0, 0, 0, 195, 169, 0>>,
      <<2, 0, 0, 0, 0, 0>>,
      <<3, 0, 0, 0>> \o <<1, 0, 0, 0>> \o <<2, 0, 0, 0>> \o <<3, 0, 0, 0>>,
      HeaderLE \o <<1, 2, 3, 4, 0, 0, 0, 0>>,
      HeaderBE \o <<0, 0, 0, 0, 4, 3, 2, 1>>,
      <<255, 0, 254, 255, 1, 0, 2, 0, 1, 0, 0, 0, 42, 0, 0, 0>>,
      HeaderLE \o <<255, 0, 254, 255, 1, 0, 2, 0, 1, 0, 0, 0, 42, 0, 0, 0>>,
      HeaderLE \o <<2, 0, 0, 0>>,
      VideoPayload(2, 9),
      TruncatedPayload }

RawInputs ==
    {[cls |-> c, buf |-> b, enc |-> "raw", orig |-> <<>>] :
        c \in Schemas, b \in {h \o p : h \in Headers, p \in Payloads} \cup TestVectors}

\* records of fixed-width primitives only, and the values their fields take
PrimSchemas == {"Timestamp", "AB", "Wide", "Mix"}

FieldValues(t) ==
    CASE t = "UInt8" -> {0, 1, 255}
      [] t = "Int8" -> {0 - 1, 0, 1}
      [] t = "UInt16" -> {0, 1, 256}
      [] t = "Int32" -> {0 - 1, 7}
      [] t = "UInt32" -> {0, 1, 42, 256}
      [] t = "UInt64" -> {0, 1, 65536}

FieldTuples(c) ==
    LET fs == _iter_model_fields(c) IN
    {f \in [1..Len(fs) -> UNION {FieldValues(fs[j][2]) : j \in 1..Len(fs)}] :
        \A j \in 1..Len(fs) : f[j] \in FieldValues(fs[j][2])}

\* each field's exact little-endian bytes, one after the other, no header
PackFields(c, f) ==
    LET fs == _iter_model_fields(c) IN
    Flatten([j \in 1..Len(fs) |-> StructPack(NAME2META[fs[j][2]].fmt, TRUE, f[j])])

PackedInputs ==
    {[cls |-> c, buf |-> PackFields(c, f), enc |-> "packed", orig |-> f] :
        c \in {"Timestamp"}, f \in FieldTuples("Timestamp")}
    \cup {[cls |-> c, buf |-> PackFields(c, f), enc |-> "packed", orig |-> f] :
        c \in {"AB"}, f \in FieldTuples("AB")}
    \cup {[cls |-> c, buf |-> PackFields(c, f), enc |-> "packed", orig |-> f] :
        c \in {"Wide"}, f \in FieldTuples("Wide")}
    \cup {[cls |-> c, buf |-> PackFields(c, f), enc |-> "packed", orig |-> f] :
        c \in {"Mix"}, f \in FieldTuples("Mix")}

\* a record with one sequence field behind an encapsulation header: the
\* count, then the elements, in the byte order the header announces
SeqSchemas == {"Seq8", "Seq32"}

ElemType(c) == get_args(_iter_model_fields(c)[1][2])[1]

ElemLists(c) ==
    UNION {[1..n -> FieldValues(ElemType(c))] : n \in 0..MaxListIter}

EncodeSeq(c, h, xs) ==
    h \o StructPack("I", h = HeaderLE, Len(xs))
      \o Flatten([j \in 1..Len(xs) |->
                    StructPack(NAME2META[ElemType(c)].fmt, h = HeaderLE, xs[j])])

CdrInputs ==
    {[cls |-> "Seq8", buf |-> EncodeSeq("Seq8", h, xs), enc |-> "cdr", orig |-> xs] :
        h \in {HeaderLE, HeaderBE}, xs \in ElemLists("Seq8")}
    \cup {[cls |-> "Seq32", buf |-> EncodeSeq("Seq32", h, xs), enc |-> "cdr", orig |-> xs] :
        h \in {HeaderLE, HeaderBE}, xs \in ElemLists("Seq32")}

---------------------------------------------------------------------------
\* main.py

MESSAGE_SCHEMA_NAME == "foxglove.CompressedVideo"
NsPerSec == 1000000000
GstSecond == 1000000000

\* the topic argument of get_topic_duration and extract_video
TopicArg == "/cam"

Msg(schema, topic, data, publish_time) ==
    [schema |-> schema, topic |-> topic, data |-> data, publish_time |-> publish_time]

MsgKinds ==
    { Msg(MESSAGE_SCHEMA_NAME, "/cam", VideoPayload(0, 7), 5),
      Msg(MESSAGE_SCHEMA_NAME, "/cam", VideoPayload(2, 8), 7),
      Msg(MESSAGE_SCHEMA_NAME, "/cam", VideoPayload(1, 9), 5),
      Msg(MESSAGE_SCHEMA_NAME, "/cam", TruncatedPayload, 6),
      Msg(MESSAGE_SCHEMA_NAME, "/aux", VideoPayload(1, 9), 6),
      Msg("other.Schema", "/cam", <<>>, 6) }

MsgLogs == UNION {[1..n -> MsgKinds] : n \in 0..MaxMsgs}

\* attribute access on a decoded BaseModel instance
Attr(inst, name) ==
    LET j == CHOOSE k \in 1..Len(inst.values) : inst.values[k][1] = name IN inst.values[j][2]

Matches(msg, topic) == msg.schema = MESSAGE_SCHEMA_NAME /\ msg.topic = topic

---------------------------------------------------------------------------
\* Initial states.

MainIdle ==
    /\ msgs = <<>>
    /\ mpc = "off"
    /\ idx = 0
    /\ first_timestamp = <<>>
    /\ last_timestamp = <<>>
    /\ duration = <<>>
    /\ prev_publish_time = <<>>
    /\ frame_count = 0
    /\ pushed = <<>>
    /\ flow_ok = TRUE

ReaderNew(c, b) ==
    /\ model_cls = c
    /\ buf = b
    /\ off = 0
    /\ le = FALSE
    /\ data_start = 0
    /\ pc = "new"
    /\ err = ""
    /\ tasks = <<>>
    /\ vals = <<>>
    /\ trace = <<>>

\* a decode_cdr call about to start, on any class and any input
Init ==
    /\ \E inp \in RawInputs \cup PackedInputs \cup CdrInputs :
          /\ ReaderNew(inp.cls, inp.buf)
          /\ enc = inp.enc
          /\ orig = inp.orig
    /\ MainIdle

\* main() about to start on any message log
InitMain ==
    /\ msgs \in MsgLogs
    /\ mpc = "start"
    /\ idx = 0
    /\ first_timestamp = <<>>
    /\ last_timestamp = <<>>
    /\ duration = <<>>
    /\ prev_publish_time = <<>>
    /\ frame_count = 0
    /\ pushed = <<>>
    /\ flow_ok = TRUE
    /\ ReaderNew("CompressedVideo", <<>>)
    /\ enc = "raw"
    /\ orig = <<>>

---------------------------------------------------------------------------
\* Actions of the decoder.

M == [model_cls |-> model_cls, buf |-> buf, off |-> off, le |-> le,
      data_start |-> data_start, pc |-> pc, err |-> err, tasks |-> tasks,
      vals |-> vals, trace |-> trace]

Install(m) ==
    /\ off' = m.off
    /\ le' = m.le
    /\ data_start' = m.data_start
    /\ pc' = m.pc
    /\ err' = m.err
    /\ tasks' = m.tasks
    /\ vals' = m.vals
    /\ trace' = m.trace
    /\ UNCHANGED <<model_cls, buf, enc, orig>>
    /\ UNCHANGED mvars

At(op) == mpc = "off" /\ TopOp(M) = op /\ ~Capped(M)

Construct == mpc = "off" /\ pc = "new" /\ Install(ConstructStep(M))
DecodeModel == At("_decode_model") /\ Install(DecodeModelStep(M))
Bind == At("bind") /\ Install(BindStep(M))
Validate == At("validate") /\ Install(ValidateStep(M))
DecodeT == At("_decode_t") /\ Install(DecodeTStep(M))
ReadPrimitiveMeta == At("read_primitive_meta") /\ Install(ReadPrimitiveMetaStep(M))
Align == At("_align") /\ Install(AlignStep(M))
Unpack == At("_unpack") /\ Install(UnpackStep(M))
ReadStr == At("read_str") /\ Install(ReadStrStep(M))
StrBody == At("str_body") /\ Install(StrBodyStep(M))
ReadBytes == At("read_bytes") /\ Install(ReadBytesStep(M))
BytesBody == At("bytes_body") /\ Install(BytesBodyStep(M))
ListBegin == At("list_begin") /\ Install(ListBeginStep(M))
ListNext == At("list_next") /\ Install(ListNextStep(M))
ListAppend == At("list_append") /\ Install(ListAppendStep(M))
MkTuple == At("mk_tuple") /\ Install(MkTupleStep(M))
Return == mpc = "off" /\ pc = "run" /\ tasks = <<>> /\ Install(ReturnStep(M))

Next ==
    \/ Construct
    \/ DecodeModel
    \/ Bind
    \/ Validate
    \/ DecodeT
    \/ ReadPrimitiveMeta
    \/ Align
    \/ Unpack
    \/ ReadStr
    \/ StrBody
    \/ ReadBytes
    \/ BytesBody
    \/ ListBegin
    \/ ListNext
    \/ ListAppend
    \/ MkTuple
    \/ Return

Spec == Init /\ [][Next]_vars

---------------------------------------------------------------------------
\* Actions of main.py.

\* get_topic_duration up to the loop
StartDuration ==
    /\ mpc = "start"
    /\ mpc' = "duration"
    /\ idx' = 1
    /\ first_timestamp' = <<>>
    /\ last_timestamp' = <<>>
    /\ UNCHANGED <<msgs, duration, prev_publish_time, frame_count, pushed, flow_ok>>
    /\ UNCHANGED rvars

\* what get_topic_duration does with a message that fails to decode
DurationOnError(i) == i + 1

\* one turn of the loop of get_topic_duration
DurationIter ==
    /\ mpc = "duration"
    /\ idx <= Len(msgs)
    /\ LET msg == msgs[idx]
           r == decode_cdr("CompressedVideo", msg.data)
       IN IF Matches(msg, TopicArg) /\ r.pc = "done"
          THEN LET ts == Attr(r.vals[1], "timestamp")
                   t_ns == Attr(ts, "sec") * NsPerSec + Attr(ts, "nsec")
               IN /\ first_timestamp' = IF first_timestamp = <<>> THEN <<t_ns>>
                                        ELSE first_timestamp
                  /\ last_timestamp' = <<t_ns>>
                  /\ idx' = idx + 1
          ELSE /\ UNCHANGED <<first_timestamp, last_timestamp>>
               /\ idx' = IF Matches(msg, TopicArg) THEN DurationOnError(idx) ELSE idx + 1
    /\ UNCHANGED <<msgs, mpc, duration, prev_publish_time, frame_count, pushed, flow_ok>>
    /\ UNCHANGED rvars

\* the return of get_topic_duration
DurationReturn ==
    /\ mpc = "duration"
    /\ idx > Len(msgs)
    /\ duration' = IF first_timestamp # <<>> /\ last_timestamp # <<>>
                      /\ last_timestamp[1] >= first_timestamp[1]
                   THEN <<(last_timestamp[1] - first_timestamp[1]) \div NsPerSec>>
                   ELSE <<0>>
    /\ mpc' = "duration_done"
    /\ UNCHANGED <<msgs, idx, first_timestamp, last_timestamp, prev_publish_time,
                   frame_count, pushed, flow_ok>>
    /\ UNCHANGED rvars

\* extract_video up to the loop; set_state(PLAYING) may fail
StartExtract ==
    /\ mpc = "start"
    /\ \E ret \in {"SUCCESS", "FAILURE"} :
          mpc' = IF ret = "FAILURE" THEN "raised" ELSE "extract"
    /\ idx' = 1
    /\ prev_publish_time' = <<>>
    /\ frame_count' = 0
    /\ UNCHANGED <<msgs, first_timestamp, last_timestamp, duration, pushed, flow_ok>>
    /\ UNCHANGED rvars

\* where extract_video goes when decode_cdr raises: the except clause
\* outside the loop
ExtractOnError == "extract_failed"

\* one turn of the loop of extract_video
ExtractIter ==
    /\ mpc = "extract"
    /\ idx <= Len(msgs)
    /\ LET msg == msgs[idx]
           r == decode_cdr("CompressedVideo", msg.data)
           current_time == msg.publish_time
           delta == current_time - prev_publish_time[1]
           dur == IF prev_publish_time # <<>>
                  THEN (IF delta > 1 THEN delta ELSE 1)
                  ELSE GstSecond \div 30
       IN IF ~Matches(msg, TopicArg)
          THEN /\ idx' = idx + 1
               /\ UNCHANGED <<mpc, prev_publish_time, frame_count, pushed, flow_ok>>
          ELSE IF r.pc # "done"
          THEN /\ mpc' = ExtractOnError
               /\ idx' = idx + 1
               /\ UNCHANGED <<prev_publish_time, frame_count, pushed, flow_ok>>
          ELSE \E ret \in {"OK", "FLUSHING"} :
                 IF ret # "OK"
                 THEN /\ mpc' = "eos"
                      /\ flow_ok' = FALSE
                      /\ UNCHANGED <<idx, prev_publish_time, frame_count, pushed>>
                 ELSE /\ pushed' = Append(pushed, [data |-> Attr(r.vals[1], "data"),
                                                   duration |-> dur,
                                                   pts |-> current_time,
                                                   dts |-> current_time])
                      /\ prev_publish_time' = <<current_time>>
                      /\ frame_count' = frame_count + 1
                      /\ idx' = idx + 1
                      /\ UNCHANGED <<mpc, flow_ok>>
    /\ UNCHANGED <<msgs, first_timestamp, last_timestamp, duration>>
    /\ UNCHANGED rvars

\* after the loop: end-of-stream, the wait on the bus, the finally clause
ExtractEos ==
    /\ mpc \in {"extract", "eos"}
    /\ mpc = "extract" => idx > Len(msgs)
    /\ mpc' = "extract_done"
    /\ UNCHANGED <<msgs, idx, first_timestamp, last_timestamp, duration,
                   prev_publish_time, frame_count, pushed, flow_ok>>
    /\ UNCHANGED rvars

NextMain ==
    \/ StartDuration
    \/ DurationIter
    \/ DurationReturn
    \/ StartExtract
    \/ ExtractIter
    \/ ExtractEos

SpecMain == InitMain /\ [][NextMain]_vars

---------------------------------------------------------------------------
\* Properties.

\* the type at a path below a type: field index, element index, position
RECURSIVE TypeAt(_, _)
TypeAt(t, p) ==
    IF p = <<>> THEN t
    ELSE IF _is_basemodel(t) THEN TypeAt(_iter_model_fields(t)[Head(p)][2], Tail(p))
    ELSE IF get_origin(t) = "list" THEN TypeAt(get_args(t)[1], Tail(p))
    ELSE TypeAt(get_args(t)[Head(p)], Tail(p))

RECURSIVE HasOptional(_)
HasOptional(t) ==
    IF get_origin(t) = "Union" THEN \E j \in 1..Len(get_args(t)) : get_args(t)[j] = "NoneType"
    ELSE IF _is_basemodel(t)
         THEN \E j \in 1..Len(_iter_model_fields(t)) : HasOptional(_iter_model_fields(t)[j][2])
    ELSE IF get_origin(t) \in {"list", "tuple"}
         THEN \E j \in 1..Len(get_args(t)) : HasOptional(get_args(t)[j])
    ELSE FALSE

Consumes(e) == e.ev \in {"align", "unpack", "body"}

\* the field values of the record decode_cdr returned, in dict order
ResultValues == [j \in 1..Len(vals[1].values) |-> vals[1].values[j][2]]
ResultNames == [j \in 1..Len(vals[1].values) |-> vals[1].values[j][1]]

\* C1: in every state of a decode_cdr call after the reader is constructed,
\* 0 <= off <= len(buf)
C1_OffsetInBounds ==
    pc # "new" => (0 <= off /\ off <= Len(buf))

\* C2: construction leaves big-endian / offset 4 / origin 4 for a buffer of
\* at least 4 bytes starting 00 00, little-endian / 4 / 4 for one starting
\* 00 01, and little-endian / 0 / 0 for every other buffer, whatever bytes 2
\* and 3 are
C2_Construction ==
    [][pc = "new" =>
        IF Len(buf) >= 4 /\ buf[1] = 0 /\ buf[2] = 0
        THEN le' = FALSE /\ off' = 4 /\ data_start' = 4
        ELSE IF Len(buf) >= 4 /\ buf[1] = 0 /\ buf[2] = 1
        THEN le' = TRUE /\ off' = 4 /\ data_start' = 4
        ELSE le' = TRUE /\ off' = 0 /\ data_start' = 0]_vars

C2_Witness ==
    pc = "run" /\ trace = <<>> /\ Len(buf) >= 4 /\ buf[3] = 255 /\ buf[4] = 1
    /\ le /\ off = 4 /\ data_start = 4

\* C3 as stated: decoding the plain concatenation of the fields'
\* little-endian bytes returns the original values, for every record of
\* fixed-width primitives and every choice of values
C3_PackedRoundTrip ==
    enc = "packed" => (pc # "error" /\ (pc = "done" => ResultValues = orig))

\* the concatenation needs no padding: every field starts at a multiple of
\* its alignment
RECURSIVE PackedAligned(_, _)
PackedAligned(fs, at) ==
    IF fs = <<>> THEN TRUE
    ELSE LET meta == NAME2META[Head(fs)[2]] IN
         at % meta.align = 0 /\ PackedAligned(Tail(fs), at + calcsize(meta.fmt))

\* the buffer is not taken for one with an encapsulation header
NoHeaderSeen(b) == Len(b) < 4 \/ b[1] # 0 \/ b[2] \notin {0, 1}

\* C3 amended: the round trip holds when no field needs padding in the
\* concatenation and the buffer is shorter than 4 bytes or does not start
\* with 00 00 or 00 01
C3_PackedRoundTripAmended ==
    (enc = "packed" /\ PackedAligned(_iter_model_fields(model_cls), 0) /\ NoHeaderSeen(buf))
        => (pc # "error" /\ (pc = "done" => ResultValues = orig))

C3_Witness ==
    /\ enc = "packed" /\ model_cls = "Mix" /\ Len(buf) = 4 /\ NoHeaderSeen(buf)
    /\ pc = "done" /\ ResultValues = orig /\ orig[2] = 0 - 1 /\ orig[3] = 256

\* C4: every _align(k) with k > 1 advances the offset by exactly
\* (k - ((off - data_start) mod k)) mod k and _align(1) leaves it; every
\* primitive is read right after its _align, at an offset whose distance
\* from the alignment origin is a multiple of its alignment
C4_Alignment ==
    pc # "new" =>
        \A j \in 1..Len(trace) :
            LET e == trace[j] IN
            /\ e.ev = "align" =>
                  e.to = e.from + (IF e.n > 1
                                   THEN (e.n - ((e.from - data_start) % e.n)) % e.n
                                   ELSE 0)
            /\ e.ev = "unpack" =>
                  /\ (e.from - data_start) % NAME2META[e.name].align = 0
                  /\ j > 1
                  /\ trace[j - 1].ev = "align"
                  /\ trace[j - 1].n = NAME2META[e.name].align
                  /\ trace[j - 1].to = e.from

C4_Witness ==
    /\ model_cls = "Wide" /\ data_start = 4 /\ pc = "done"
    /\ \E j \in 1..Len(trace) :
          trace[j].ev = "unpack" /\ trace[j].name = "UInt64" /\ trace[j].from = 4

Ascii(bs) == \A j \in 1..Len(bs) : bs[j] < 128

\* C5: after the length prefix n, read_str and read_bytes fail with their
\* overrun error and return nothing when n exceeds the bytes that remain;
\* otherwise exactly n bytes are consumed, read_bytes returns them as they
\* are and read_str returns them less at most one trailing NUL
C5_LengthChecked ==
    [][(mpc = "off" /\ TopOp(M) \in {"str_body", "bytes_body"}) =>
        LET n == vals[1]
            isStr == TopOp(M) = "str_body"
            raw == SubSeq(buf, off + 1, off + n)
        IN IF n > Len(buf) - off
           THEN /\ pc' = "error"
                /\ err' = (IF isStr THEN ErrStrOverrun ELSE ErrBytesOverrun)
                /\ vals' = <<>>
                /\ off' = off
           ELSE /\ off' = off + n
                /\ ~isStr => (pc' = "run" /\ vals'[1] = raw)
                /\ (isStr /\ Ascii(raw)) =>
                      /\ pc' = "run"
                      /\ vals'[1] = (IF n > 0 /\ raw[n] = 0 THEN SubSeq(raw, 1, n - 1) ELSE raw)
                /\ (isStr /\ pc' = "error") => err' = ErrUtf8]_vars

C5_Witness ==
    /\ model_cls = "Str" /\ buf = <<10, 0, 0, 0, 104, 105>>
    /\ pc = "error" /\ err = ErrStrOverrun /\ off = 4

\* C6: when the length prefix of a sequence exceeds the bytes that remain
\* in the buffer, the decode fails before any element is decoded
C6_SequenceLengthChecked ==
    \A j \in 1..Len(trace) :
        (trace[j].ev = "list_begin" /\ trace[j].n > Len(buf) - trace[j].to) =>
            /\ pc # "done"
            /\ \A k \in (j + 1)..Len(trace) :
                  ~(trace[k].ev \in {"unpack", "body", "validate"}
                    /\ IsPrefix(trace[j].path, trace[k].path)
                    /\ Len(trace[k].path) > Len(trace[j].path))

\* C7: a record type with an optional field is rejected with the
\* unsupported-schema error before any field is read or the offset moves
C7_OptionalRejectedFirst ==
    HasOptional(model_cls) =>
        /\ pc # "done"
        /\ pc = "error" =>
              /\ err = ErrOptional
              /\ off = data_start
              /\ \A j \in 1..Len(trace) : ~Consumes(trace[j])

\* C8: fields are consumed in declared order, depth first: the paths of
\* successive consumptions never decrease and each starts where the last
\* ended; a field is bound under its declared name once all of its bytes
\* and none of its later siblings' are consumed; a record is validated only
\* after all of its fields are bound, in order
C8_DeclaredOrder ==
    /\ \A j \in 1..Len(trace) : \A k \in 1..Len(trace) :
          (j < k /\ Consumes(trace[j]) /\ Consumes(trace[k])) =>
              /\ LexLeq(trace[j].path, trace[k].path)
              /\ trace[j].to <= trace[k].from
    /\ \A j \in 1..(Len(trace) - 1) : trace[j].to = trace[j + 1].from
    /\ \A k \in 1..Len(trace) :
          trace[k].ev = "bind" =>
              LET q == trace[k].path
                  parent == TypeAt(model_cls, Front(q))
              IN /\ trace[k].name = _iter_model_fields(parent)[Last(q)][1]
                 /\ \A j \in 1..Len(trace) :
                       (Consumes(trace[j]) /\ IsPrefix(Front(q), trace[j].path)
                        /\ Len(trace[j].path) >= Len(q)) =>
                           (j < k <=> trace[j].path[Len(q)] <= Last(q))
    /\ \A k \in 1..Len(trace) :
          trace[k].ev = "validate" =>
              LET p == trace[k].path
                  c == TypeAt(model_cls, p)
                  nf == Len(_iter_model_fields(c))
                  binds == SelectSeq(SubSeq(trace, 1, k - 1),
                                     LAMBDA e : e.ev = "bind" /\ Front(e.path) = p
                                                /\ Len(e.path) = Len(p) + 1)
              IN /\ trace[k].name = c
                 /\ trace[k].n = nf
                 /\ Len(binds) = nf
                 /\ \A i \in 1..nf : binds[i].path = p \o <<i>>
                 /\ \A j \in (k + 1)..Len(trace) :
                       ~(IsPrefix(p, trace[j].path) /\ Len(trace[j].path) > Len(p))
    /\ pc = "done" =>
          ResultNames = [j \in 1..Len(_iter_model_fields(model_cls)) |->
                            _iter_model_fields(model_cls)[j][1]]

C8_Witness ==
    /\ model_cls = "Nested" /\ pc = "done"
    /\ \E k \in 1..Len(trace) : trace[k].ev = "validate" /\ trace[k].path = <<1>>

\* C10: a sequence whose count n is followed by n elements decodes to the
\* list of exactly these n values in their encoded order; the finished list
\* has as many values as the count says, and an empty one leaves the offset
\* right after the count
C10_SequenceDecode ==
    /\ enc = "cdr" => (pc # "error" /\ (pc = "done" => ResultValues[1] = orig))
    /\ \A k \in 1..Len(trace) :
          trace[k].ev = "list_end" =>
              \E j \in 1..(k - 1) :
                  /\ trace[j].ev = "list_begin"
                  /\ trace[j].path = trace[k].path
                  /\ trace[j].n = trace[k].n
                  /\ j > 1 /\ trace[j - 1].ev = "unpack" /\ trace[j - 1].to = trace[j].from
                  /\ trace[k].n = 0 => trace[k].to = trace[j - 1].to

C10_Witness ==
    /\ enc = "cdr" /\ model_cls = "Seq32" /\ pc = "done" /\ ~le
    /\ Len(orig) >= 2 /\ orig[1] # orig[2] /\ ResultValues[1] = orig

\* the matching messages whose payload decodes, in log order
Decodable ==
    SelectSeq(msgs, LAMBDA msg : Matches(msg, TopicArg)
                                 /\ decode_cdr("CompressedVideo", msg.data).pc = "done")

StampOf(msg) ==
    LET ts == Attr(decode_cdr("CompressedVideo", msg.data).vals[1], "timestamp")
    IN Attr(ts, "sec") * NsPerSec + Attr(ts, "nsec")

\* C9: a message that fails to decode is skipped and every later matching
\* message that decodes is still processed: it counts in the duration and
\* it is pushed to the pipeline
C9_SkipAndContinue ==
    /\ mpc = "duration_done" =>
          /\ first_timestamp = (IF Decodable = <<>> THEN <<>> ELSE <<StampOf(Decodable[1])>>)
          /\ last_timestamp = (IF Decodable = <<>> THEN <<>>
                               ELSE <<StampOf(Decodable[Len(Decodable)])>>)
    /\ (mpc \in {"extract_done", "extract_failed"} /\ flow_ok) =>
          /\ frame_count = Len(Decodable)
          /\ [j \in 1..Len(pushed) |-> pushed[j].data]
                = [j \in 1..Len(Decodable) |->
                      Attr(decode_cdr("CompressedVideo", Decodable[j].data).vals[1], "data")]

====
